---- MODULE Spec2Model ----
(***************************************************************************)
(* State-machine model of ingest_ebp_data.py: the EBP client (login,       *)
(* fetch_data, get_managers behind retry_on_failure), the per-entity       *)
(* transformers, the link and filter stages of main(), and the exporter.   *)
(*                                                                         *)
(* A cell value is a tuple of strings: text is the tuple of its            *)
(* characters, an opaque value (an id, a date string) a 1-tuple, and the   *)
(* pandas markers NaN / NaT and Timestamp values are tagged tuples.        *)
(* A DataFrame is [cols: set of column names, rows: sequence of            *)
(* functions cols -> value]; the order of columns is not modelled.         *)
(***************************************************************************)
EXTENDS Naturals, Integers, Sequences, FiniteSets, TLC

VARIABLES
    env,            \* os.getenv: creds, base_path, subdirectories, filter_words
    pc,             \* position of main() / of the function under study
    error,          \* the exception that ended the run, and where it was raised
    ebp,            \* whether the EBP client object exists
    auth_header,    \* EBP.auth_header
    retry,          \* state of the running retry_on_failure wrapper
    issued,         \* kinds of network requests sent so far
    table_idx,      \* position in the iteration over ebp_data
    ebp_data,       \* ebp_data[table_name]['data']
    fetch_log,      \* how the fetch of each entity ended
    dfa, dfb, dfc, dfu, dfm, dfp, dfam,
    row_idx,        \* position in contracts_df.iterrows()
    managers,       \* the list `managers` of get_managers
    mgr_log,        \* per contract requested: its id and what the server answered
    export          \* state of export_all_data

vars == <<env, pc, error, ebp, auth_header, retry, issued, table_idx, ebp_data,
          fetch_log, dfa, dfb, dfc, dfu, dfm, dfp, dfam, row_idx, managers,
          mgr_log, export>>

(***************************************************************************)
(* Bounds of the model.                                                    *)
(***************************************************************************)
MaxAreas == 2
MaxContracts == 2
MaxBuildings == 2
MaxUnits == 2
MaxNameLen == 2
MaxWordLen == 2
MaxWords == 2
MaxPayload == 2
MaxMeters == 2

(***************************************************************************)
(* Cell values.                                                            *)
(***************************************************************************)
NaN == <<"NaN">>
NaT == <<"NaT">>
Today == <<"today">>
Sentinel == <<"2099-12-31">>

Timestamp(s) == <<"Timestamp", s[1]>>

IsNA(v) == v = NaN \/ v = NaT

Range(s) == {s[i] : i \in 1..Len(s)}

(***************************************************************************)
(* DataFrames.                                                             *)
(***************************************************************************)
EmptyDataFrame == [cols |-> {}, rows |-> <<>>]

\* pd.DataFrame(list of dicts): the columns are the keys that occur, a key a
\* record lacks is NaN in its row.
DataFrame(data) ==
    LET cols == UNION {DOMAIN data[i] : i \in 1..Len(data)}
    IN  [cols |-> cols,
         rows |-> [i \in 1..Len(data) |->
                     [c \in cols |-> IF c \in DOMAIN data[i] THEN data[i][c] ELSE NaN]]]

\* df.empty
IsEmpty(df) == df.cols = {} \/ Len(df.rows) = 0

\* df[c] = series: values[i] is the new cell of row i
AssignColumn(df, c, values) ==
    [cols |-> df.cols \cup {c},
     rows |-> [i \in 1..Len(df.rows) |->
                 [k \in df.cols \cup {c} |->
                     IF k = c THEN values[i] ELSE df.rows[i][k]]]]

\* df[c] = scalar
SetColumn(df, c, v) ==
    AssignColumn(df, c, [i \in 1..Len(df.rows) |-> v])

\* df[cols]
SelectColumns(df, keep) ==
    [cols |-> keep,
     rows |-> [i \in 1..Len(df.rows) |-> [k \in keep |-> df.rows[i][k]]]]

\* df[mask].reset_index(drop=True): mask[i] tells whether row i is kept
FilterRows(df, mask) ==
    LET Kept(i) == mask[i]
        idx == SelectSeq([i \in 1..Len(df.rows) |-> i], Kept)
    IN  [cols |-> df.cols, rows |-> [j \in 1..Len(idx) |-> df.rows[idx[j]]]]

\* set(df[c].tolist())
ColumnValues(df, c) == {df.rows[i][c] : i \in 1..Len(df.rows)}

safe_rename_columns(df, old, new) ==
    IF old \in df.cols
    THEN [cols |-> (df.cols \ {old}) \cup {new},
          rows |-> [i \in 1..Len(df.rows) |->
                      [k \in (df.cols \ {old}) \cup {new} |->
                          IF k = new THEN df.rows[i][old] ELSE df.rows[i][k]]]]
    ELSE df

safe_drop_columns(df, drop) == SelectColumns(df, df.cols \ drop)

(***************************************************************************)
(* Dates: fillna and pd.to_datetime(format="%Y-%m-%d", errors='coerce').   *)
(***************************************************************************)
ValidDateStrings == {Sentinel, <<"2024-01-31">>}

fillna(v, fill) == IF IsNA(v) THEN fill ELSE v

to_datetime(v) ==
    IF IsNA(v) THEN NaT
    ELSE IF v[1] = "Timestamp" THEN v
    ELSE IF v \in ValidDateStrings THEN Timestamp(v)
    ELSE NaT

\* the loop over date columns present in the frame
ParseDateColumns(df, date_cols) ==
    [cols |-> df.cols,
     rows |-> [i \in 1..Len(df.rows) |->
                 [k \in df.cols |->
                     IF k \in date_cols THEN to_datetime(df.rows[i][k])
                     ELSE df.rows[i][k]]]]

(***************************************************************************)
(* Per-entity transformers.  A result is [exc, df]: exc is "none" when the *)
(* function returns df, otherwise the exception it raises.                 *)
(***************************************************************************)
Return(df) == [exc |-> "none", df |-> df]
Raise(e) == [exc |-> e, df |-> EmptyDataFrame]

transform_buildings(df) ==
    IF IsEmpty(df) THEN Return(df)
    ELSE Return(safe_rename_columns(
                safe_rename_columns(
                  safe_rename_columns(df, "id", "buildingId"),
                  "name", "buildingName"),
                "activeState", "buildingActiveState"))

transform_utility_units(df) ==
    IF IsEmpty(df) THEN Return(df)
    ELSE LET d0 == safe_drop_columns(df, {"participations", "participationObjects"})
         IN  Return(safe_rename_columns(
                      safe_rename_columns(
                        safe_rename_columns(
                          safe_rename_columns(d0, "id", "utilityUnitId"),
                          "name", "utilityUnitName"),
                        "usageType", "utilityUnitUsageType"),
                      "activeState", "utilityUnitActiveState"))

transform_meters(df) ==
    IF IsEmpty(df) THEN Return(df)
    ELSE LET d0 == safe_rename_columns(
                     safe_rename_columns(df, "id", "meterId"),
                     "activeState", "meterActiveState")
         IN  IF "billableTo" \notin d0.cols THEN Raise("KeyError")
             ELSE LET filled == [i \in 1..Len(d0.rows) |->
                                    fillna(d0.rows[i]["billableTo"], Sentinel)]
                      d1 == AssignColumn(d0, "billableTo", filled)
                  IN  Return(ParseDateColumns(d1, {"billableFrom", "billableTo"}))

\* x.get('name') if isinstance(x, dict) else None
ProductNameOf(x) ==
    IF Len(x) = 2 /\ x[1] = "dict" THEN <<x[2]>> ELSE NaN

RequiredColumns ==
    {"contractId", "contractName", "contractActiveState", "startDate", "endDate",
     "productId", "productName", "areaId", "areaName", "loadDate"}

transform_contracts(df) ==
    IF IsEmpty(df) THEN Return(df)
    ELSE LET names == [i \in 1..Len(df.rows) |-> ProductNameOf(df.rows[i]["product"])]
             d0 == IF "product" \in df.cols
                   THEN AssignColumn(df, "productName", names)
                   ELSE SetColumn(df, "productName", NaN)
             d1 == safe_rename_columns(
                     safe_rename_columns(
                       safe_rename_columns(d0, "id", "contractId"),
                       "name", "contractName"),
                     "activeState", "contractActiveState")
             d2 == SelectColumns(d1, d1.cols \cap RequiredColumns)
         IN  IF "endDate" \notin d2.cols THEN Raise("KeyError")
             ELSE LET filled == [i \in 1..Len(d2.rows) |->
                                    fillna(d2.rows[i]["endDate"], Sentinel)]
                      d3 == AssignColumn(d2, "endDate", filled)
                  IN  Return(ParseDateColumns(d3, {"startDate", "endDate"}))

transform_areas(df) ==
    IF IsEmpty(df) THEN Return(df)
    ELSE Return(safe_rename_columns(
                  safe_rename_columns(df, "id", "areaId"),
                  "name", "areaName"))

transform_profiles(df) ==
    IF IsEmpty(df) THEN Return(df)
    ELSE Return(safe_rename_columns(df, "id", "profileId"))

\* config['transformation'](df)
Transformation(table_name, df) ==
    CASE table_name = "contracts" -> transform_contracts(df)
      [] table_name = "areas" -> transform_areas(df)
      [] table_name = "buildings" -> transform_buildings(df)
      [] table_name = "utility_units" -> transform_utility_units(df)
      [] table_name = "meters" -> transform_meters(df)
      [] table_name = "profiles" -> transform_profiles(df)

(***************************************************************************)
(* apply_data_filters: Series.str.contains(pattern, case=False, na=False)  *)
(* searches the REGULAR EXPRESSION '|'.join(filter_words).  Of the regex   *)
(* syntax the model keeps alternation and the wildcard ".".                *)
(***************************************************************************)
Lower(c) == IF c = "D" THEN "d" ELSE c

RECURSIVE Join(_, _)
Join(words, sep) ==
    IF Len(words) = 0 THEN <<>>
    ELSE IF Len(words) = 1 THEN words[1]
    ELSE words[1] \o <<sep>> \o Join(Tail(words), sep)

\* the alternatives of a pattern: its pieces between the "|" characters
RECURSIVE Alternatives(_)
Alternatives(pattern) ==
    IF \A i \in 1..Len(pattern) : pattern[i] # "|" THEN {pattern}
    ELSE LET k == CHOOSE i \in 1..Len(pattern) :
                      pattern[i] = "|" /\ \A j \in 1..(i-1) : pattern[j] # "|"
         IN  {SubSeq(pattern, 1, k - 1)}
               \cup Alternatives(SubSeq(pattern, k + 1, Len(pattern)))

\* one atom of the regex against one character, under re.IGNORECASE
AtomMatches(a, c) == a = "." \/ Lower(a) = Lower(c)

MatchesAt(alt, s, i) ==
    /\ i + Len(alt) - 1 <= Len(s)
    /\ \A j \in 1..Len(alt) : AtomMatches(alt[j], s[i + j - 1])

\* re.search(pattern, s, re.IGNORECASE) is not None
RegexSearch(pattern, s) ==
    \E alt \in Alternatives(pattern) : \E i \in 1..(Len(s) + 1) : MatchesAt(alt, s, i)

\* one element of df[column].str.contains(pattern, case=False, na=False)
StrContains(v, pattern) == IF IsNA(v) THEN FALSE ELSE RegexSearch(pattern, v)

apply_data_filters(df, filter_words, column_name) ==
    IF IsEmpty(df) \/ column_name \notin df.cols THEN df
    ELSE LET pattern == Join(filter_words, "|")
             mask == [i \in 1..Len(df.rows) |->
                        StrContains(df.rows[i][column_name], pattern)]
         IN  FilterRows(df, [i \in 1..Len(df.rows) |-> ~mask[i]])

(***************************************************************************)
(* retry_on_failure: one pass of the wrapper's loop per call of func.      *)
(***************************************************************************)
LoginMaxRetries == 3
LoginDelay == 2
FetchMaxRetries == 3
FetchDelay == 1

max_retries(fn) == IF fn = "login" THEN LoginMaxRetries ELSE FetchMaxRetries
delay(fn) == IF fn = "login" THEN LoginDelay ELSE FetchDelay

Result(tag, data) == [tag |-> tag, data |-> data]

IdleRetry ==
    [fn |-> "none", attempt |-> 0, calls |-> 0, sleeps |-> <<>>,
     state |-> "idle", result |-> Result("none", <<>>)]

\* wrapper(*args): the loop starts with attempt = 0
BeginCall(fn) ==
    [fn |-> fn, attempt |-> 0, calls |-> 0, sleeps |-> <<>>,
     state |-> "running", result |-> Result("none", <<>>)]

\* return func(*args, **kwargs)
WrapperReturn(r, result) ==
    [r EXCEPT !.calls = @ + 1, !.state = "returned", !.result = result]

\* WrapperExcept with the last attempt taken to be number max_retries
WrapperExceptOffByOne(r, exc) ==
    IF r.attempt = max_retries(r.fn)
    THEN [r EXCEPT !.calls = @ + 1, !.state = "raised", !.result = Result("exception", exc)]
    ELSE [r EXCEPT !.calls = @ + 1, !.attempt = @ + 1,
                   !.sleeps = Append(@, delay(r.fn))]

\* except Exception: raise on the last attempt, otherwise sleep and loop
WrapperExcept(r, exc) ==
    IF r.attempt = max_retries(r.fn) - 1
    THEN [r EXCEPT !.calls = @ + 1, !.state = "raised", !.result = Result("exception", exc)]
    ELSE [r EXCEPT !.calls = @ + 1, !.attempt = @ + 1,
                   !.sleeps = Append(@, delay(r.fn))]

(***************************************************************************)
(* Inputs of a run of main(): what the API serves.                         *)
(***************************************************************************)
EntityOrder == <<"contracts", "areas", "buildings", "utility_units", "meters", "profiles">>

NameMain == <<"m">>
NameDeleted == <<"m", "D">>
DefaultFilterWords == << <<"d">> >>

Id(prefix, i) == <<prefix, ToString(i)>>

FixtureAreas ==
    { <<>>,
      << [id |-> Id("A", 1), name |-> NameMain], [id |-> Id("A", 2), name |-> NameDeleted] >>,
      << [id |-> Id("A", 1), name |-> NameDeleted] >> }

FixtureContracts ==
    { <<>>,
      << [id |-> Id("C", 1), name |-> <<"c1">>, activeState |-> <<"ACTIVE">>,
          areaId |-> Id("A", 1), areaName |-> NameMain, endDate |-> NaN,
          product |-> <<"dict", "P1">>],
         [id |-> Id("C", 2), name |-> <<"c2">>, activeState |-> <<"ACTIVE">>,
          areaId |-> Id("A", 2), areaName |-> NameDeleted, endDate |-> <<"2024-01-31">>,
          product |-> <<"dict", "P1">>] >>,
      << [id |-> Id("C", 1), name |-> <<"c1">>, endDate |-> <<"not-a-date">>] >>,
      << [id |-> Id("C", 1), name |-> <<"c1">>, areaId |-> Id("A", 2)] >> }

FixtureBuildings ==
    { <<>>,
      << [id |-> Id("B", 1), areaId |-> Id("A", 1)],
         [id |-> Id("B", 2), areaId |-> Id("A", 2)] >> }

FixtureUnits ==
    { << [id |-> Id("U", 1), buildingId |-> Id("B", 1)],
         [id |-> Id("U", 2), buildingId |-> Id("B", 3)],
         [id |-> Id("U", 3), buildingId |-> Id("B", 2)] >> }

FixtureMeters ==
    { << [id |-> Id("M", 1), utilityUnitId |-> Id("U", 3), billableTo |-> NaN] >> }

FixtureProfiles ==
    { << [id |-> Id("P", 1)] >> }

\* response.json().get('elements', []) of a successful GET
Elements(table_name) ==
    CASE table_name = "contracts" -> FixtureContracts
      [] table_name = "areas" -> FixtureAreas
      [] table_name = "buildings" -> FixtureBuildings
      [] table_name = "utility_units" -> FixtureUnits
      [] table_name = "meters" -> FixtureMeters
      [] table_name = "profiles" -> FixtureProfiles

(***************************************************************************)
(* EBP.__init__ and EBP.login.                                             *)
(***************************************************************************)
Fatal(at, exc) ==
    /\ pc' = "fatal"
    /\ error' = [at |-> at, exc |-> exc]

frames == <<dfa, dfb, dfc, dfu, dfm, dfp>>
mgr_vars == <<dfam, row_idx, managers, mgr_log>>
fetch_vars == <<table_idx, ebp_data, fetch_log>>
client_vars == <<ebp, auth_header, retry>>

\* all([self.username, self.password, self.base_url])
CredentialsSet(e) == e.username /\ e.password /\ e.base_url

Construct ==
    /\ pc = "start"
    /\ IF ~CredentialsSet(env)
       THEN Fatal("EBP.__init__", "ValueError") /\ UNCHANGED retry
       ELSE pc' = "login" /\ retry' = BeginCall("login") /\ UNCHANGED error
    /\ UNCHANGED <<env, ebp, auth_header, issued, fetch_vars, frames, mgr_vars, export>>

LoginResponses == {"token", "no_token", "exception"}

\* the state of the client after one call of login whose POST ended as `out`
LoginCall(out) ==
    CASE out = "token" ->
           [auth_header |-> "Bearer", retry |-> WrapperReturn(retry, Result("True", <<>>))]
      [] out = "no_token" ->
           [auth_header |-> auth_header, retry |-> WrapperReturn(retry, Result("False", <<>>))]
      [] out = "exception" ->
           [auth_header |-> auth_header, retry |-> WrapperExcept(retry, <<"RequestException">>)]

LoginAttempt ==
    /\ pc = "login"
    /\ retry.state = "running"
    /\ \E out \in LoginResponses :
         /\ auth_header' = LoginCall(out).auth_header
         /\ retry' = LoginCall(out).retry
    /\ issued' = issued \cup {"authenticate"}
    /\ UNCHANGED <<env, pc, error, ebp, fetch_vars, frames, mgr_vars, export>>

\* self.login() has returned or raised: __init__ ends, main() goes on
InitReturn ==
    /\ pc = "login"
    /\ retry.state \in {"returned", "raised"}
    /\ IF retry.state = "raised"
       THEN Fatal("EBP.__init__", retry.result.data[1])
              /\ UNCHANGED <<ebp, retry, table_idx>>
       ELSE /\ ebp' = TRUE
            /\ pc' = "fetch"
            /\ table_idx' = 1
            /\ retry' = BeginCall("fetch_data")
            /\ UNCHANGED error
    /\ UNCHANGED <<env, auth_header, issued, ebp_data, fetch_log, frames, mgr_vars, export>>

(***************************************************************************)
(* EBP.fetch_data and the fetch-and-transform loop of main().              *)
(***************************************************************************)
FetchAttempt ==
    /\ pc = "fetch"
    /\ retry.state = "running"
    /\ IF auth_header = "None"
       THEN /\ retry' = WrapperReturn(retry, Result("None", <<>>))
            /\ UNCHANGED issued
       ELSE /\ issued' = issued \cup {"bulk"}
            /\ \/ \E data \in Elements(EntityOrder[table_idx]) :
                    retry' = WrapperReturn(retry, Result("elements", data))
               \/ retry' = WrapperExcept(retry, <<"RequestException">>)
    /\ UNCHANGED <<env, pc, error, ebp, auth_header, fetch_vars, frames, mgr_vars, export>>

\* ProcessFetched whose except branch stores no table
ProcessFetchedNoFallback(table_name, r) ==
    IF r.state = "raised" \/ r.result.tag = "None"
    THEN [set |-> FALSE, df |-> EmptyDataFrame,
          log |-> IF r.state = "raised" THEN "fetch_failed" ELSE "no_data"]
    ELSE LET df == SetColumn(DataFrame(r.result.data), "loadDate", Today)
             t == Transformation(table_name, df)
         IN  IF t.exc = "none"
             THEN [set |-> TRUE, df |-> t.df, log |-> "ok"]
             ELSE [set |-> TRUE, df |-> EmptyDataFrame, log |-> "transform_failed"]

\* the body of the loop after ebp.fetch_data(config['url']) has ended
ProcessFetched(table_name, r) ==
    IF r.state = "raised"
    THEN [set |-> TRUE, df |-> EmptyDataFrame, log |-> "fetch_failed"]
    ELSE IF r.result.tag = "None"
    THEN [set |-> FALSE, df |-> EmptyDataFrame, log |-> "no_data"]
    ELSE LET df == SetColumn(DataFrame(r.result.data), "loadDate", Today)
             t == Transformation(table_name, df)
         IN  IF t.exc = "none"
             THEN [set |-> TRUE, df |-> t.df, log |-> "ok"]
             ELSE [set |-> TRUE, df |-> EmptyDataFrame, log |-> "transform_failed"]

ProcessTable ==
    /\ pc = "fetch"
    /\ retry.state \in {"returned", "raised"}
    /\ LET table_name == EntityOrder[table_idx]
           p == ProcessFetched(table_name, retry)
       IN  /\ ebp_data' = [ebp_data EXCEPT ![table_name] = [set |-> p.set, df |-> p.df]]
           /\ fetch_log' = [fetch_log EXCEPT ![table_name] = p.log]
    /\ IF table_idx < Len(EntityOrder)
       THEN table_idx' = table_idx + 1 /\ retry' = BeginCall("fetch_data") /\ UNCHANGED pc
       ELSE pc' = "extract" /\ retry' = IdleRetry /\ UNCHANGED table_idx
    /\ UNCHANGED <<env, error, ebp, auth_header, issued, frames, mgr_vars, export>>

\* dfa = ebp_data['areas']['data'] ... : a KeyError when an entry has no 'data'
Extract ==
    /\ pc = "extract"
    /\ IF \E n \in Range(EntityOrder) : ~ebp_data[n].set
       THEN Fatal("main", "KeyError") /\ UNCHANGED frames
       ELSE /\ dfa' = ebp_data["areas"].df
            /\ dfb' = ebp_data["buildings"].df
            /\ dfc' = ebp_data["contracts"].df
            /\ dfu' = ebp_data["utility_units"].df
            /\ dfm' = ebp_data["meters"].df
            /\ dfp' = ebp_data["profiles"].df
            /\ pc' = "link"
            /\ UNCHANGED error
    /\ UNCHANGED <<env, client_vars, issued, fetch_vars, mgr_vars, export>>

(***************************************************************************)
(* The cross-linking step of main().                                       *)
(***************************************************************************)
\* dfb.set_index('buildingId')['areaId'].to_dict() looked up at one key:
\* of several rows with the key the last one wins, a miss maps to NaN
building_area_map(b, key) ==
    LET hits == {i \in 1..Len(b.rows) : b.rows[i]["buildingId"] = key}
    IN  IF hits = {} THEN NaN
        ELSE b.rows[CHOOSE i \in hits : \A j \in hits : j <= i]["areaId"]

LinkGuard(u, b) ==
    /\ ~IsEmpty(u)
    /\ ~IsEmpty(b)
    /\ "buildingId" \in u.cols
    /\ "areaId" \in b.cols

\* dfu['areaId'] = dfu['buildingId'].map(building_area_map); the assignment
\* changes the frame in place, which ebp_data['utility_units']['data'] still names
LinkUnits(u, b) ==
    IF LinkGuard(u, b)
    THEN AssignColumn(u, "areaId",
                      [i \in 1..Len(u.rows) |->
                          building_area_map(b, u.rows[i]["buildingId"])])
    ELSE u

Link ==
    /\ pc = "link"
    /\ IF LinkGuard(dfu, dfb) /\ "buildingId" \notin dfb.cols
       THEN Fatal("main", "KeyError") /\ UNCHANGED <<dfu, ebp_data>>
       ELSE /\ dfu' = LinkUnits(dfu, dfb)
            /\ ebp_data' = [ebp_data EXCEPT !["utility_units"].df = LinkUnits(dfu, dfb)]
            /\ pc' = "filter"
            /\ UNCHANGED error
    /\ UNCHANGED <<env, client_vars, issued, table_idx, fetch_log, dfa, dfb, dfc, dfm, dfp,
                   mgr_vars, export>>

(***************************************************************************)
(* The filter stage of main().                                             *)
(***************************************************************************)
\* FilterByArea whose filtered frame is not written back
FilterByAreaNotWrittenBack(df, valid_area_ids) == df

\* df[df['areaId'].isin(valid_area_ids)].reset_index(drop=True), when the
\* frame is not empty and has the column
FilterByArea(df, valid_area_ids) ==
    IF ~IsEmpty(df) /\ "areaId" \in df.cols
    THEN FilterRows(df, [i \in 1..Len(df.rows) |->
                             df.rows[i]["areaId"] \in valid_area_ids])
    ELSE df

FilterStage(a, b, c, u, filter_words) ==
    LET fa == apply_data_filters(a, filter_words, "areaName")
    IN  IF ~IsEmpty(fa)
        THEN LET valid_area_ids == ColumnValues(fa, "areaId")
             IN  [dfa |-> fa,
                  dfc |-> FilterByArea(c, valid_area_ids),
                  dfu |-> FilterByArea(u, valid_area_ids),
                  dfb |-> FilterByArea(b, valid_area_ids)]
        ELSE [dfa |-> fa, dfc |-> c, dfu |-> u, dfb |-> b]

\* Filter that also drops the meters of the utility units it removed
FilterCascadingToMeters ==
    /\ pc = "filter"
    /\ LET fa == apply_data_filters(dfa, env.filter_words, "areaName")
       IN  IF ~IsEmpty(fa) /\ "areaId" \notin fa.cols
           THEN Fatal("main", "KeyError")
                  /\ UNCHANGED <<dfa, dfb, dfc, dfu, dfm, row_idx, managers>>
           ELSE LET f == FilterStage(dfa, dfb, dfc, dfu, env.filter_words)
                IN  /\ dfa' = f.dfa
                    /\ dfb' = f.dfb
                    /\ dfc' = f.dfc
                    /\ dfu' = f.dfu
                    /\ dfm' = IF "utilityUnitId" \in dfm.cols /\ "utilityUnitId" \in f.dfu.cols
                              THEN FilterRows(dfm, [i \in 1..Len(dfm.rows) |->
                                       dfm.rows[i]["utilityUnitId"]
                                           \in ColumnValues(f.dfu, "utilityUnitId")])
                              ELSE dfm
                    /\ pc' = "managers"
                    /\ row_idx' = 1
                    /\ managers' = <<>>
                    /\ UNCHANGED error
    /\ UNCHANGED <<env, client_vars, issued, fetch_vars, dfp, dfam, mgr_log, export>>

Filter ==
    /\ pc = "filter"
    /\ LET fa == apply_data_filters(dfa, env.filter_words, "areaName")
       IN  IF ~IsEmpty(fa) /\ "areaId" \notin fa.cols
           THEN Fatal("main", "KeyError") /\ UNCHANGED <<dfa, dfb, dfc, dfu, row_idx, managers>>
           ELSE LET f == FilterStage(dfa, dfb, dfc, dfu, env.filter_words)
                IN  /\ dfa' = f.dfa
                    /\ dfb' = f.dfb
                    /\ dfc' = f.dfc
                    /\ dfu' = f.dfu
                    /\ pc' = "managers"
                    /\ row_idx' = 1
                    /\ managers' = <<>>
                    /\ UNCHANGED error
    /\ UNCHANGED <<env, client_vars, issued, fetch_vars, dfm, dfp, dfam, mgr_log, export>>

(***************************************************************************)
(* EBP.get_managers.                                                       *)
(***************************************************************************)
ExcludedEmail == <<"zev@ckw.ch">>
OtherEmail == <<"a@b.ch">>

ContractContext ==
    {"contractId", "contractName", "contractActiveState", "productName", "areaName"}

ExpectedColumns ==
    ContractContext \cup
    {"salutation", "firstName", "lastName", "userType", "username", "mobile",
     "email", "telephone", "street", "houseNumber", "postalCode", "city"}

DroppedColumns ==
    {"profileId", "isBlocked", "party", "externalUserId", "externalUserParties",
     "activeState"}

\* a flattened manager record of the payload
Manager(email, first) ==
    [id |-> <<"p">>, isBlocked |-> <<"false">>, email |-> email, firstName |-> first]

\* the payloads a 200 response can carry: lists of managers, or a list whose
\* records lack the nested contact/address/personal objects
Payloads(n) ==
    UNION {[1..k -> {Manager(ExcludedEmail, <<"Z">>), Manager(OtherEmail, <<"F">>)}] : k \in 0..n}

Responses(n) ==
    {[kind |-> "exception", payload |-> <<>>],
     [kind |-> "status", payload |-> <<>>],
     [kind |-> "malformed", payload |-> <<>>]}
      \cup {[kind |-> "ok", payload |-> p] : p \in Payloads(n)}

\* the body of the try block for one contract after a 200 response with a
\* non-empty payload: [exc, df]
ProcessPayload(row, row_cols, payload) ==
    LET d0 == DataFrame(payload)
        d1 == FilterRows(d0, [i \in 1..Len(d0.rows) |->
                                 d0.rows[i]["email"] # ExcludedEmail])
        d2 == safe_drop_columns(safe_rename_columns(d1, "id", "profileId"), DroppedColumns)
        Stamp(d, c) == SetColumn(d, c, row[c])
    IN  IF ~(ContractContext \subseteq row_cols) THEN Raise("KeyError")
        ELSE Return(Stamp(Stamp(Stamp(Stamp(Stamp(d2, "contractId"), "contractName"),
                          "contractActiveState"), "productName"), "areaName"))

\* what one pass of the loop appends to `managers`: a 1-tuple, or nothing
LoopBody(row, row_cols, resp) ==
    IF resp.kind = "ok" /\ Len(resp.payload) > 0
    THEN LET t == ProcessPayload(row, row_cols, resp.payload)
         IN  IF t.exc = "none" THEN <<t.df>> ELSE <<>>
    ELSE <<>>

\* pd.concat(frames, ignore_index=True)
RECURSIVE ConcatRows(_, _)
ConcatRows(dfs, cols) ==
    IF Len(dfs) = 0 THEN <<>>
    ELSE [i \in 1..Len(dfs[1].rows) |->
            [k \in cols |-> IF k \in dfs[1].cols THEN dfs[1].rows[i][k] ELSE NaN]]
         \o ConcatRows(Tail(dfs), cols)

Concat(dfs) ==
    LET cols == UNION {dfs[i].cols : i \in 1..Len(dfs)}
    IN  [cols |-> cols, rows |-> ConcatRows(dfs, cols)]

\* the end of get_managers
ManagersOutput(ms) ==
    IF Len(ms) = 0 THEN EmptyDataFrame
    ELSE LET output == Concat(ms)
         IN  SelectColumns(output, output.cols \cap ExpectedColumns)

\* ManagersStep whose loop ends at the first contract that yields no frame
ManagersStepBreak(n) ==
    /\ pc = "managers"
    /\ ~IsEmpty(dfc)
    /\ row_idx <= Len(dfc.rows)
    /\ \E resp \in Responses(n) :
         /\ managers' = managers \o LoopBody(dfc.rows[row_idx], dfc.cols, resp)
         /\ mgr_log' = Append(mgr_log, [contractId |-> dfc.rows[row_idx]["contractId"],
                                        resp |-> resp])
         /\ row_idx' = IF resp.kind \in {"exception", "status", "malformed"}
                       THEN Len(dfc.rows) + 1
                       ELSE row_idx + 1
    /\ issued' = issued \cup {"managers"}
    /\ UNCHANGED <<env, pc, error, client_vars, fetch_vars, frames, dfam, export>>

ManagersStep(n) ==
    /\ pc = "managers"
    /\ ~IsEmpty(dfc)
    /\ row_idx <= Len(dfc.rows)
    /\ \E resp \in Responses(n) :
         /\ managers' = managers \o LoopBody(dfc.rows[row_idx], dfc.cols, resp)
         /\ mgr_log' = Append(mgr_log, [contractId |-> dfc.rows[row_idx]["contractId"],
                                        resp |-> resp])
         /\ row_idx' = row_idx + 1
    /\ issued' = issued \cup {"managers"}
    /\ UNCHANGED <<env, pc, error, client_vars, fetch_vars, frames, dfam, export>>

\* get_managers returns; main() stamps loadDate and calls export_all_data
ManagersReturn ==
    /\ pc = "managers"
    /\ IsEmpty(dfc) \/ row_idx > Len(dfc.rows)
    /\ dfam' = SetColumn(ManagersOutput(managers), "loadDate", Today)
    /\ pc' = "export"
    /\ UNCHANGED <<env, error, client_vars, issued, fetch_vars, frames, row_idx,
                   managers, mgr_log, export>>

(***************************************************************************)
(* export_all_data, create_export_directories, export_dataframe_to_csv.    *)
(***************************************************************************)
\* the keys of data_to_export, in the order main() builds the dict
ExportOrder ==
    <<"areas", "contracts", "buildings", "utility_units", "meters", "managers", "profiles">>

DefaultSubdirectories ==
    <<"areas", "contracts", "buildings", "utility_units", "meters", "managers", "profiles">>

\* data_to_export[table_name]
ExportFrame(table_name) ==
    CASE table_name = "areas" -> dfa
      [] table_name = "contracts" -> dfc
      [] table_name = "buildings" -> dfb
      [] table_name = "utility_units" -> dfu
      [] table_name = "meters" -> dfm
      [] table_name = "managers" -> dfam
      [] table_name = "profiles" -> dfp

IdleExport ==
    [idx |-> 0, dirs |-> {}, results |-> <<>>, attempted |-> {}, io_errors |-> {},
     files |-> {}, summary |-> [done |-> FALSE, successful |-> 0, total |-> 0, failed |-> {}]]

\* export_dataframe_to_csv(df, file_path, table_name) where the write, if
\* one is made, ends as `io`: [success, attempted, written]
export_dataframe_to_csv(df, io) ==
    IF IsEmpty(df) THEN [success |-> FALSE, attempted |-> FALSE, written |-> FALSE]
    ELSE IF io = "ok" THEN [success |-> TRUE, attempted |-> TRUE, written |-> TRUE]
    ELSE [success |-> FALSE, attempted |-> TRUE, written |-> FALSE]

\* if table_name in subdirectories
Configured(table_name, subdirectories) == table_name \in Range(subdirectories)

\* the start of export_all_data: read the configuration, create the
\* directories; mkdir may raise after k directories
ExportBegin ==
    /\ pc = "export"
    /\ IF ~env.base_path
       THEN Fatal("export_all_data", "ValueError") /\ UNCHANGED export
       ELSE \E k \in 0..Len(env.subdirectories) :
              IF k < Len(env.subdirectories)
              THEN /\ Fatal("export_all_data", "OSError")
                   /\ export' = [export EXCEPT !.dirs = {env.subdirectories[i] : i \in 1..k}]
              ELSE /\ export' = [export EXCEPT !.dirs = Range(env.subdirectories), !.idx = 1]
                   /\ pc' = "export_loop"
                   /\ UNCHANGED error
    /\ UNCHANGED <<env, client_vars, issued, fetch_vars, frames, mgr_vars>>

\* ExportTable whose loop ends at the first write that raises
ExportTableAborting ==
    /\ pc = "export_loop"
    /\ export.idx <= Len(ExportOrder)
    /\ LET table_name == ExportOrder[export.idx]
       IN  IF Configured(table_name, env.subdirectories)
           THEN \E io \in {"ok", "error"} :
                  LET e == export_dataframe_to_csv(ExportFrame(table_name), io)
                  IN  export' = [export EXCEPT
                        !.idx = IF e.attempted /\ ~e.written THEN Len(ExportOrder) + 1 ELSE @ + 1,
                        !.results = Append(@, [name |-> table_name, success |-> e.success]),
                        !.attempted = IF e.attempted THEN @ \cup {table_name} ELSE @,
                        !.io_errors = IF e.attempted /\ ~e.written THEN @ \cup {table_name} ELSE @,
                        !.files = IF e.written THEN @ \cup {table_name} ELSE @]
           ELSE export' = [export EXCEPT !.idx = @ + 1]
    /\ UNCHANGED <<env, pc, error, client_vars, issued, fetch_vars, frames, mgr_vars>>

\* one pass of `for table_name, df in dataframes.items()`
ExportTable ==
    /\ pc = "export_loop"
    /\ export.idx <= Len(ExportOrder)
    /\ LET table_name == ExportOrder[export.idx]
       IN  IF Configured(table_name, env.subdirectories)
           THEN \E io \in {"ok", "error"} :
                  LET e == export_dataframe_to_csv(ExportFrame(table_name), io)
                  IN  export' = [export EXCEPT
                        !.idx = @ + 1,
                        !.results = Append(@, [name |-> table_name, success |-> e.success]),
                        !.attempted = IF e.attempted THEN @ \cup {table_name} ELSE @,
                        !.io_errors = IF e.attempted /\ ~e.written THEN @ \cup {table_name} ELSE @,
                        !.files = IF e.written THEN @ \cup {table_name} ELSE @]
           ELSE export' = [export EXCEPT !.idx = @ + 1]
    /\ UNCHANGED <<env, pc, error, client_vars, issued, fetch_vars, frames, mgr_vars>>

\* the summary lines after the loop
Summary(results) ==
    [done |-> TRUE,
     successful |-> Cardinality({i \in 1..Len(results) : results[i].success}),
     total |-> Len(results),
     failed |-> {results[i].name : i \in {j \in 1..Len(results) : ~results[j].success}}]

ExportSummary ==
    /\ pc = "export_loop"
    /\ export.idx > Len(ExportOrder)
    /\ export' = [export EXCEPT !.summary = Summary(export.results)]
    /\ pc' = "done"
    /\ UNCHANGED <<env, error, client_vars, issued, fetch_vars, frames, mgr_vars>>

(***************************************************************************)
(* A run of main().                                                        *)
(***************************************************************************)
NoError == [at |-> "none", exc |-> "none"]

Environments ==
    [username : BOOLEAN, password : BOOLEAN, base_url : BOOLEAN, base_path : BOOLEAN,
     subdirectories : {DefaultSubdirectories, <<"areas", "contracts", "archive">>},
     filter_words : {DefaultFilterWords}]

StartOfRun ==
    /\ error = NoError
    /\ ebp = FALSE
    /\ auth_header = "None"
    /\ retry = IdleRetry
    /\ issued = {}
    /\ table_idx = 0
    /\ ebp_data = [n \in Range(EntityOrder) |-> [set |-> FALSE, df |-> EmptyDataFrame]]
    /\ fetch_log = [n \in Range(EntityOrder) |-> "pending"]
    /\ dfa = EmptyDataFrame
    /\ dfb = EmptyDataFrame
    /\ dfc = EmptyDataFrame
    /\ dfu = EmptyDataFrame
    /\ dfm = EmptyDataFrame
    /\ dfp = EmptyDataFrame
    /\ dfam = EmptyDataFrame
    /\ row_idx = 0
    /\ managers = <<>>
    /\ mgr_log = <<>>
    /\ export = IdleExport

Init ==
    /\ env \in Environments
    /\ pc = "start"
    /\ StartOfRun

MainPayload == 1

Next ==
    \/ Construct
    \/ LoginAttempt
    \/ InitReturn
    \/ FetchAttempt
    \/ ProcessTable
    \/ Extract
    \/ Link
    \/ Filter
    \/ ManagersStep(MainPayload)
    \/ ManagersReturn
    \/ ExportBegin
    \/ ExportTable
    \/ ExportSummary

Spec == Init /\ [][Next]_vars

(***************************************************************************)
(* Bounded inputs for the stages of main() studied on their own.           *)
(***************************************************************************)
\* the frame main() stores for an entity whose fetch returned `data`
Frame(table_name, data) ==
    ProcessFetched(table_name,
                   WrapperReturn(BeginCall("fetch_data"), Result("elements", data))).df

Ids(prefix, n) == {Id(prefix, i) : i \in 1..n}

AreaNames == {NameMain, NameDeleted}

RawAreas(n, names) ==
    UNION {{[i \in 1..k |-> [id |-> Id("A", i), name |-> nm[i]]] : nm \in [1..k -> names]}
             : k \in 0..n}

RawBuildings(n, na) ==
    UNION {{[i \in 1..k |-> [id |-> Id("B", i), areaId |-> ar[i]]] : ar \in [1..k -> Ids("A", na)]}
             \cup {[i \in 1..k |-> [id |-> Id("B", i)]]}
             : k \in 0..n}

ContractRecord(i, area) ==
    [id |-> Id("C", i), name |-> <<"c">>, activeState |-> <<"ACTIVE">>, endDate |-> NaN,
     product |-> <<"dict", "P1">>, areaName |-> NameMain, areaId |-> area]

\* r without the key k
Without(r, k) == [x \in DOMAIN r \ {k} |-> r[x]]

RawContracts(n, na) ==
    UNION {{[i \in 1..k |-> ContractRecord(i, ar[i])] : ar \in [1..k -> Ids("A", na)]}
             \cup {[i \in 1..k |-> Without(ContractRecord(i, NaN), "areaId")]}
             : k \in 0..n}

RawUnits(n, nb) ==
    UNION {{[i \in 1..k |-> [id |-> Id("U", i), buildingId |-> bd[i]]]
               : bd \in [1..k -> Ids("B", nb + 1)]}
             \cup {[i \in 1..k |-> [id |-> Id("U", i), buildingId |-> bd[i], areaId |-> Id("A", 1)]]
               : bd \in [1..k -> Ids("B", nb + 1)]}
             \cup {[i \in 1..k |-> [id |-> Id("U", i), areaId |-> Id("A", 1)]]}
             : k \in 0..n}

\* a fetch that failed on every attempt leaves pd.DataFrame()
Frames(table_name, raws) == {EmptyDataFrame} \cup {Frame(table_name, d) : d \in raws}

DefaultEnv ==
    [username |-> TRUE, password |-> TRUE, base_url |-> TRUE, base_path |-> TRUE,
     subdirectories |-> DefaultSubdirectories, filter_words |-> DefaultFilterWords]

TheMeters == Frame("meters", CHOOSE d \in FixtureMeters : TRUE)
TheProfiles == Frame("profiles", CHOOSE d \in FixtureProfiles : TRUE)
TheArea == <<[id |-> Id("A", 1), name |-> NameMain]>>

\* main() after the fetch loop and the extraction, with the given frames
AfterExtract(e, a, b, c, u, m, p) ==
    /\ env = e
    /\ error = NoError
    /\ ebp = TRUE
    /\ auth_header = "Bearer"
    /\ retry = IdleRetry
    /\ issued = {"authenticate", "bulk"}
    /\ table_idx = Len(EntityOrder)
    /\ ebp_data = [n \in Range(EntityOrder) |->
                     [set |-> TRUE,
                      df |-> CASE n = "areas" -> a
                               [] n = "buildings" -> b
                               [] n = "contracts" -> c
                               [] n = "utility_units" -> u
                               [] n = "meters" -> m
                               [] n = "profiles" -> p]]
    /\ fetch_log = [n \in Range(EntityOrder) |->
                      IF ebp_data[n].df = EmptyDataFrame THEN "fetch_failed" ELSE "ok"]
    /\ dfa = a
    /\ dfb = b
    /\ dfc = c
    /\ dfu = u
    /\ dfm = m
    /\ dfp = p
    /\ export = IdleExport

\* the link and filter stages over every bounded set of tables
InitStages ==
    /\ pc = "link"
    /\ \E a \in Frames("areas", RawAreas(MaxAreas, AreaNames)),
          b \in Frames("buildings", RawBuildings(MaxBuildings, MaxAreas)),
          c \in Frames("contracts", RawContracts(MaxContracts, MaxAreas)),
          u \in Frames("utility_units", RawUnits(MaxUnits, MaxBuildings)) :
            AfterExtract(DefaultEnv, a, b, c, u, TheMeters, TheProfiles)
    /\ dfam = EmptyDataFrame
    /\ row_idx = 0
    /\ managers = <<>>
    /\ mgr_log = <<>>

NextStages ==
    \/ Link
    \/ Filter

SpecStages == InitStages /\ [][NextStages]_vars

(***************************************************************************)
(* apply_data_filters on its own: every bounded areas table and word list. *)
(***************************************************************************)
FilterChars == {"d", "D", "."}

Strings(chars, n) == UNION {[1..k -> chars] : k \in 0..n}

WordLists == UNION {[1..k -> Strings(FilterChars, MaxWordLen)] : k \in 1..MaxWords}

ApplyDataFilters ==
    /\ pc = "apply_data_filters"
    /\ dfa' = apply_data_filters(dfa, env.filter_words, "areaName")
    /\ pc' = "filtered"
    /\ UNCHANGED <<env, error, client_vars, issued, fetch_vars, dfb, dfc, dfu, dfm, dfp,
                   mgr_vars, export>>

InitFilter ==
    /\ pc = "apply_data_filters"
    /\ \E a \in Frames("areas", RawAreas(MaxAreas, Strings(FilterChars, MaxNameLen) \cup {NaN})),
          w \in WordLists :
            AfterExtract([DefaultEnv EXCEPT !.filter_words = w], a, EmptyDataFrame,
                         EmptyDataFrame, EmptyDataFrame, TheMeters, TheProfiles)
    /\ dfam = EmptyDataFrame
    /\ row_idx = 0
    /\ managers = <<>>
    /\ mgr_log = <<>>

NextFilter == ApplyDataFilters

SpecFilter == InitFilter /\ [][NextFilter]_vars

(***************************************************************************)
(* get_managers on its own: every bounded contracts table and every        *)
(* answer of the server.                                                   *)
(***************************************************************************)
ManagerContracts(n) ==
    Frames("contracts",
           RawContracts(n, 1)
             \cup {[i \in 1..k |-> Without(ContractRecord(i, Id("A", 1)), "areaName")] : k \in 1..n})

InitManagers ==
    /\ pc = "managers"
    /\ \E c \in ManagerContracts(MaxContracts) :
         AfterExtract(DefaultEnv, Frame("areas", TheArea),
                      EmptyDataFrame, c, EmptyDataFrame, TheMeters, TheProfiles)
    /\ dfam = EmptyDataFrame
    /\ row_idx = 1
    /\ managers = <<>>
    /\ mgr_log = <<>>

NextManagers ==
    \/ ManagersStep(MaxPayload)
    \/ ManagersReturn

SpecManagers == InitManagers /\ [][NextManagers]_vars

(***************************************************************************)
(* export_all_data on its own: every combination of empty and non-empty    *)
(* tables, with and without a base path, under two subdirectory lists.     *)
(***************************************************************************)
AnswerAll(c, resp) ==
    [i \in 1..Len(c.rows) |-> [contractId |-> c.rows[i]["contractId"], resp |-> resp]]

RECURSIVE CollectAll(_, _, _)
CollectAll(c, resp, i) ==
    IF IsEmpty(c) \/ i > Len(c.rows) THEN <<>>
    ELSE LoopBody(c.rows[i], c.cols, resp) \o CollectAll(c, resp, i + 1)

InitExport ==
    /\ pc = "export"
    /\ \E e \in {v \in Environments : CredentialsSet(v)},
          a \in Frames("areas", {TheArea}),
          b \in Frames("buildings", {<<[id |-> Id("B", 1), areaId |-> Id("A", 1)]>>}),
          c \in Frames("contracts", {<<ContractRecord(1, Id("A", 1))>>}),
          u \in Frames("utility_units", {<<[id |-> Id("U", 1)]>>}),
          m \in Frames("meters", FixtureMeters),
          p \in Frames("profiles", FixtureProfiles),
          resp \in {[kind |-> "status", payload |-> <<>>],
                    [kind |-> "ok", payload |-> <<Manager(OtherEmail, <<"F">>)>>]} :
            /\ AfterExtract(e, a, b, c, u, m, p)
            /\ mgr_log = AnswerAll(c, resp)
            /\ managers = CollectAll(c, resp, 1)
            /\ row_idx = Len(c.rows) + 1
            /\ dfam = SetColumn(ManagersOutput(CollectAll(c, resp, 1)), "loadDate", Today)

NextExport ==
    \/ ExportBegin
    \/ ExportTable
    \/ ExportSummary

SpecExport == InitExport /\ [][NextExport]_vars

(***************************************************************************)
(* The transformers on their own: every bounded list of fetched records is *)
(* turned into a frame and transformed, and the result transformed again.  *)
(***************************************************************************)
EndValues == {NaN, <<"2024-01-31">>, <<"not-a-date">>}

\* a key that a fetched record may lack: the empty record, or k with a value
Optional(k, values) == {<<>>} \cup {(k :> v) : v \in values}

ContractInputs(i) ==
    {[id |-> Id("C", i), name |-> <<"c">>] @@ e @@ p :
        e \in Optional("endDate", EndValues),
        p \in Optional("product", {<<"dict", "P1">>})}

MeterInputs(i) ==
    {[id |-> Id("M", i)] @@ t @@ f :
        t \in Optional("billableTo", EndValues),
        f \in Optional("billableFrom", {<<"2024-01-31">>})}

RawDatedContracts(n) ==
    UNION {{s \in [1..k -> UNION {ContractInputs(i) : i \in 1..k}] :
               \A i \in 1..k : s[i] \in ContractInputs(i)} : k \in 0..n}

RawDatedMeters(n) ==
    UNION {{s \in [1..k -> UNION {MeterInputs(i) : i \in 1..k}] :
               \A i \in 1..k : s[i] \in MeterInputs(i)} : k \in 0..n}

TransformInputs(table_name) ==
    CASE table_name = "contracts" -> RawDatedContracts(MaxContracts)
      [] table_name = "areas" -> RawAreas(MaxAreas, AreaNames)
      [] table_name = "buildings" -> RawBuildings(MaxBuildings, MaxAreas)
      [] table_name = "utility_units" -> RawUnits(MaxUnits, MaxBuildings)
      [] table_name = "meters" -> RawDatedMeters(MaxMeters)
      [] table_name = "profiles" -> {<<>>} \cup FixtureProfiles

\* df = pd.DataFrame(data); df['loadDate'] = datetime.today()
RawFrame(data) == SetColumn(DataFrame(data), "loadDate", Today)

\* the frame variable of main() named after the entity takes df
StoreFrame(table_name, df) ==
    /\ dfa' = IF table_name = "areas" THEN df ELSE dfa
    /\ dfb' = IF table_name = "buildings" THEN df ELSE dfb
    /\ dfc' = IF table_name = "contracts" THEN df ELSE dfc
    /\ dfu' = IF table_name = "utility_units" THEN df ELSE dfu
    /\ dfm' = IF table_name = "meters" THEN df ELSE dfm
    /\ dfp' = IF table_name = "profiles" THEN df ELSE dfp

\* config['transformation'](df) on the frame of the fetched records; an
\* exception ends the call
TransformOnce ==
    /\ pc = "transform"
    /\ LET table_name == EntityOrder[table_idx]
           t == Transformation(table_name, RawFrame(retry.result.data))
       IN  IF t.exc # "none"
           THEN Fatal(table_name, t.exc) /\ UNCHANGED ebp_data
           ELSE /\ ebp_data' = [ebp_data EXCEPT ![table_name] = [set |-> TRUE, df |-> t.df]]
                /\ pc' = "transformed"
                /\ UNCHANGED error
    /\ UNCHANGED <<env, client_vars, issued, table_idx, fetch_log, frames, mgr_vars, export>>

\* the same transformer applied to its own result
TransformAgain ==
    /\ pc = "transformed"
    /\ LET table_name == EntityOrder[table_idx]
           t == Transformation(table_name, ebp_data[table_name].df)
       IN  IF t.exc # "none"
           THEN Fatal(table_name, t.exc) /\ UNCHANGED frames
           ELSE /\ StoreFrame(table_name, t.df)
                /\ pc' = "transformed_twice"
                /\ UNCHANGED error
    /\ UNCHANGED <<env, client_vars, issued, fetch_vars, mgr_vars, export>>

InitTransform ==
    /\ pc = "transform"
    /\ env = DefaultEnv
    /\ table_idx \in 1..Len(EntityOrder)
    /\ \E data \in TransformInputs(EntityOrder[table_idx]) :
         retry = WrapperReturn(BeginCall("fetch_data"), Result("elements", data))
    /\ error = NoError
    /\ ebp = TRUE
    /\ auth_header = "Bearer"
    /\ issued = {"authenticate", "bulk"}
    /\ ebp_data = [n \in Range(EntityOrder) |-> [set |-> FALSE, df |-> EmptyDataFrame]]
    /\ fetch_log = [n \in Range(EntityOrder) |-> "pending"]
    /\ dfa = EmptyDataFrame
    /\ dfb = EmptyDataFrame
    /\ dfc = EmptyDataFrame
    /\ dfu = EmptyDataFrame
    /\ dfm = EmptyDataFrame
    /\ dfp = EmptyDataFrame
    /\ dfam = EmptyDataFrame
    /\ row_idx = 0
    /\ managers = <<>>
    /\ mgr_log = <<>>
    /\ export = IdleExport

NextTransform ==
    \/ TransformOnce
    \/ TransformAgain

SpecTransform == InitTransform /\ [][NextTransform]_vars

(***************************************************************************)
(* From the link step to the end of the export, for every bounded areas    *)
(* table and every one-word denylist, with units and meters that hang on   *)
(* the areas through the buildings.                                        *)
(***************************************************************************)
OneWordLists == {<<w>> : w \in Strings(FilterChars, MaxWordLen)} \cup {DefaultFilterWords}

TheBuildings == Frame("buildings", CHOOSE d \in FixtureBuildings : Len(d) > 0)
TheUnits == Frame("utility_units", CHOOSE d \in FixtureUnits : TRUE)

InitPipeline ==
    /\ pc = "link"
    /\ \E a \in Frames("areas", RawAreas(MaxAreas, AreaNames)),
          w \in OneWordLists :
            AfterExtract([DefaultEnv EXCEPT !.filter_words = w], a, TheBuildings,
                         EmptyDataFrame, TheUnits, TheMeters, TheProfiles)
    /\ dfam = EmptyDataFrame
    /\ row_idx = 0
    /\ managers = <<>>
    /\ mgr_log = <<>>

NextPipeline ==
    \/ Link
    \/ Filter
    \/ ManagersReturn
    \/ ExportBegin
    \/ ExportTable
    \/ ExportSummary

SpecPipeline == InitPipeline /\ [][NextPipeline]_vars

(***************************************************************************)
(* Vocabulary of the claims.                                               *)
(***************************************************************************)
\* w occurs in s as a substring, letter case ignored
IsSubstringCI(w, s) ==
    \E i \in 1..(Len(s) - Len(w) + 1) :
        \A j \in 1..Len(w) : Lower(w[j]) = Lower(s[i + j - 1])

\* the value of column c in row r of df: null when df has no such column
Cell(df, r, c) == IF c \in df.cols THEN r[c] ELSE NaN

\* the area row's name contains one of the filter words
Denylisted(df, r, words) ==
    /\ ~IsNA(Cell(df, r, "areaName"))
    /\ \E k \in 1..Len(words) : IsSubstringCI(words[k], Cell(df, r, "areaName"))

\* the areaId values of a table
AreaIdsOf(df) == IF "areaId" \in df.cols THEN ColumnValues(df, "areaId") ELSE {}

Retained(r, df) == \E j \in 1..Len(df.rows) : df.rows[j] = r

Filtered(table_name) ==
    CASE table_name = "contracts" -> dfc
      [] table_name = "buildings" -> dfb
      [] table_name = "utility_units" -> dfu

\* C1: after the filter stage a row of contracts, buildings or utility units
\* is retained if and only if its areaId is in the set of areaId values of
\* the filtered areas table (the claim as stated, for every input).
C1_RetainedIffAreaRetained ==
    pc = "managers" =>
        \A n \in {"contracts", "buildings", "utility_units"} :
            LET before == ebp_data[n].df
            IN  \A i \in 1..Len(before.rows) :
                    Retained(before.rows[i], Filtered(n))
                        <=> Cell(before, before.rows[i], "areaId") \in AreaIdsOf(dfa)

\* the areaId the claim gives unit row r: that of the buildings row with the
\* unit's buildingId, null when there is none
ClaimedUnitArea(u, r, b) ==
    LET key == Cell(u, r, "buildingId")
        hits == {j \in 1..Len(b.rows) : Cell(b, b.rows[j], "buildingId") = key}
    IN  IF hits = {} THEN NaN
        ELSE Cell(b, b.rows[CHOOSE j \in hits : TRUE], "areaId")

\* C3: after the cross-linking step every utility unit has an areaId column
\* value equal to the areaId of the buildings row with its buildingId, null
\* when there is none, for every buildings table (the claim as stated).
C3_UnitAreaFromBuildings ==
    pc = "filter" =>
        \A i \in 1..Len(dfu.rows) :
            /\ "areaId" \in dfu.cols
            /\ dfu.rows[i]["areaId"] = ClaimedUnitArea(dfu, dfu.rows[i], dfb)

\* C4: apply_data_filters(areas, filter_words, 'areaName') removes exactly
\* the rows whose areaName contains a filter word as a case-insensitive
\* substring and keeps the others in their order (the claim as stated).
C4_RemovesIffSubstring ==
    pc = "filtered" =>
        LET before == ebp_data["areas"].df
            Keep(r) == ~Denylisted(before, r, env.filter_words)
        IN  dfa.rows = SelectSeq(before.rows, Keep)

\* C6: a client object never exists without a token: whenever the
\* authenticate response carries no token the construction fails (the claim
\* as stated).
C6_ClientHasToken == ebp => auth_header # "None"

\* C9: the tables the summary lists as failed are exactly those whose CSV
\* write raised an I/O error, never an empty table (the claim as stated).
C9_FailedAreIOErrors ==
    export.summary.done => export.summary.failed = export.io_errors

(***************************************************************************)
(* C2: the end-to-end run with one denylisted area.                        *)
(***************************************************************************)
FetchedAreas == ebp_data["areas"].df

DenylistedAreaIds ==
    {FetchedAreas.rows[i]["areaId"] :
        i \in {j \in 1..Len(FetchedAreas.rows) :
                 Denylisted(FetchedAreas, FetchedAreas.rows[j], env.filter_words)}}

\* every bulk fetch returned its elements, and the areas table holds exactly
\* one denylisted area next to at least one that is not
OneDenylistedArea ==
    /\ \A n \in Range(EntityOrder) : fetch_log[n] \in {"ok", "transform_failed"}
    /\ Cardinality(DenylistedAreaIds) = 1
    /\ \E i \in 1..Len(FetchedAreas.rows) :
          ~Denylisted(FetchedAreas, FetchedAreas.rows[i], env.filter_words)

\* get_managers has returned
ManagersFetched ==
    \/ pc \in {"export", "export_loop", "done"}
    \/ pc = "fatal" /\ error.at = "export_all_data"

RequestedIds == [i \in 1..Len(mgr_log) |-> mgr_log[i].contractId]

ContractIds(df) == [i \in 1..Len(df.rows) |-> df.rows[i]["contractId"]]

\* C2: in a run whose bulk fetches all succeed and whose areas table has one
\* denylisted area beside others, no CSV written for contracts or utility
\* units holds a row of the denylisted area, managers requests go only to
\* contracts of the filtered table, in its order and one each, and none goes
\* to a contract the filter removed.
C2_EndToEndDenylist ==
    OneDenylistedArea =>
        /\ \A n \in {"contracts", "utility_units"} :
              n \in export.files =>
                  \A i \in 1..Len(ExportFrame(n).rows) :
                      Cell(ExportFrame(n), ExportFrame(n).rows[i], "areaId")
                          \notin DenylistedAreaIds
        /\ Len(mgr_log) <= Len(dfc.rows)
        /\ \A i \in 1..Len(mgr_log) : mgr_log[i].contractId = dfc.rows[i]["contractId"]
        /\ ManagersFetched => RequestedIds = ContractIds(dfc)
        /\ \A i \in 1..Len(ebp_data["contracts"].df.rows) :
              LET c == ebp_data["contracts"].df
              IN  Cell(c, c.rows[i], "areaId") \in DenylistedAreaIds
                      => c.rows[i]["contractId"] \notin Range(RequestedIds)

\* a finished run that fetched two contracts, one of them in the denylisted
\* area, wrote both CSVs and asked for the managers of the surviving one
C2_Witness ==
    /\ pc = "done"
    /\ OneDenylistedArea
    /\ {"contracts", "utility_units"} \subseteq export.files
    /\ Len(ebp_data["contracts"].df.rows) = 2
    /\ \E i \in 1..2 : Cell(ebp_data["contracts"].df, ebp_data["contracts"].df.rows[i],
                            "areaId") \in DenylistedAreaIds
    /\ Len(mgr_log) = 1
    /\ Len(ebp_data["utility_units"].df.rows) > Len(dfu.rows)

(***************************************************************************)
(* C5: a bulk fetch that fails on every attempt.                           *)
(***************************************************************************)
SomeFetchFailed == \E n \in Range(EntityOrder) : fetch_log[n] = "fetch_failed"

\* C5: when the bulk fetch of an entity has failed on all its attempts, that
\* entity's table is the empty table, every entity before the loop's position
\* has been processed, the run is not ended by anything before
\* export_all_data, and until it is done or ended it has a next step.
C5_FetchFailureNotFatal ==
    SomeFetchFailed =>
        /\ \A n \in Range(EntityOrder) :
              fetch_log[n] = "fetch_failed" =>
                  ebp_data[n] = [set |-> TRUE, df |-> EmptyDataFrame]
        /\ \A i \in 1..Len(EntityOrder) :
              (pc # "fetch" \/ i < table_idx) => fetch_log[EntityOrder[i]] # "pending"
        /\ error.at \in {"none", "export_all_data"}
        /\ pc \notin {"done", "fatal"} => ENABLED Next

\* a finished run in which one fetch failed three times, a later entity was
\* fetched and transformed, and a CSV was written
C5_Witness ==
    /\ pc = "done"
    /\ fetch_log["contracts"] = "fetch_failed"
    /\ fetch_log["profiles"] = "ok"
    /\ "profiles" \in export.files
    /\ export.summary.done

(***************************************************************************)
(* C7: retry_on_failure(max_retries=3).                                    *)
(***************************************************************************)
\* C7: a wrapped call invokes the function at most 3 times; while it runs
\* every call so far has failed and been followed by one sleep; it returns at
\* the first call that returns, with that call's result; every sleep has the
\* same length; it raises only after the third failure, with no third sleep.
C7_RetryAtMostThree ==
    retry.state # "idle" =>
        /\ retry.calls <= 3
        /\ \A i, j \in 1..Len(retry.sleeps) : retry.sleeps[i] = retry.sleeps[j]
        /\ retry.state = "running" => Len(retry.sleeps) = retry.calls /\ retry.calls <= 2
        /\ retry.state = "returned" =>
              /\ Len(retry.sleeps) = retry.calls - 1
              /\ retry.result.tag \in {"True", "False", "None", "elements"}
        /\ retry.state = "raised" =>
              /\ retry.calls = 3
              /\ Len(retry.sleeps) = 2
              /\ retry.result.tag = "exception"

\* fetch_data failed three times: two sleeps of one second, then the raise
C7_Witness ==
    /\ retry.fn = "fetch_data"
    /\ retry.state = "raised"
    /\ retry.sleeps = <<1, 1>>

(***************************************************************************)
(* C8: get_managers.                                                       *)
(***************************************************************************)
\* the request of contract i returned 200 with a non-empty payload and was
\* processed without an exception
Yielded(i) ==
    /\ mgr_log[i].resp.kind = "ok"
    /\ Len(mgr_log[i].resp.payload) > 0
    /\ ContractContext \subseteq dfc.cols

NotExcludedManager(m) == m["email"] # ExcludedEmail

\* the combined row of manager m of contract row c
ManagerRow(m, c) ==
    [k \in {"email", "firstName", "loadDate"} \cup ContractContext |->
        IF k \in ContractContext THEN c[k]
        ELSE IF k = "loadDate" THEN Today
        ELSE m[k]]

RECURSIVE YieldedRows(_)
YieldedRows(i) ==
    IF i > Len(mgr_log) THEN <<>>
    ELSE (IF Yielded(i)
          THEN LET ms == SelectSeq(mgr_log[i].resp.payload, NotExcludedManager)
               IN  [j \in 1..Len(ms) |-> ManagerRow(ms[j], dfc.rows[i])]
          ELSE <<>>) \o YieldedRows(i + 1)

\* C8: every contract is requested, in order, whatever the earlier requests
\* did; when get_managers has returned, the combined table holds exactly the
\* non-excluded manager rows of the contracts that yielded, and is empty when
\* none did.
C8_ManagersPartialFailure ==
    /\ Len(mgr_log) <= Len(dfc.rows)
    /\ \A i \in 1..Len(mgr_log) : mgr_log[i].contractId = dfc.rows[i]["contractId"]
    /\ pc = "managers" /\ ~IsEmpty(dfc) => Len(mgr_log) = row_idx - 1
    /\ pc = "export" =>
          /\ Len(mgr_log) = Len(dfc.rows)
          /\ dfam.rows = YieldedRows(1)
          /\ (\A i \in 1..Len(mgr_log) : ~Yielded(i)) => IsEmpty(dfam)

\* two contracts: the first request fails, the second yields a kept row
C8_Witness ==
    /\ pc = "export"
    /\ Len(mgr_log) = 2
    /\ mgr_log[1].resp.kind \in {"exception", "status"}
    /\ Yielded(2)
    /\ Len(dfam.rows) = 1
    /\ Len(mgr_log[2].resp.payload) = 2

(***************************************************************************)
(* C10: export_all_data.                                                   *)
(***************************************************************************)
ExportLoopDone == pc = "done"

\* C10 as stated: when the loop has ended, a write was attempted for a table
\* if and only if its name is in the subdirectory list.
C10_AttemptedIffConfigured ==
    ExportLoopDone =>
        \A n \in Range(ExportOrder) :
            n \in export.attempted <=> n \in Range(env.subdirectories)

\* C10 as amended: a write is attempted only for a non-empty table whose name
\* is in the subdirectory list and only after every subdirectory was
\* created; when the loop has ended it was attempted for every such table,
\* whatever writes failed before it, and every attempted write that raised no
\* error left its file.
C10_AttemptedIffConfiguredNonEmpty ==
    /\ \A n \in export.attempted :
          /\ n \in Range(env.subdirectories)
          /\ ~IsEmpty(ExportFrame(n))
          /\ export.dirs = Range(env.subdirectories)
    /\ export.files = export.attempted \ export.io_errors
    /\ ExportLoopDone =>
          \A n \in Range(ExportOrder) :
              n \in export.attempted
                  <=> (n \in Range(env.subdirectories) /\ ~IsEmpty(ExportFrame(n)))

\* a finished export in which the first table's write failed, a later table
\* was written, an empty table was skipped and a table was not configured
C10_Witness ==
    /\ ExportLoopDone
    /\ "areas" \in export.io_errors
    /\ "contracts" \in export.files
    /\ "profiles" \notin Range(env.subdirectories)
    /\ IsEmpty(dfam)

(***************************************************************************)
(* C11, C12: the transformers.                                             *)
(***************************************************************************)
Transformed == EntityOrder[table_idx]

FetchedRecords == retry.result.data

EndField == IF Transformed = "contracts" THEN "endDate" ELSE "billableTo"

\* the date the claim gives a record: 2099-12-31 for an absent end value,
\* the invalid marker for an unparseable one, the value itself otherwise
ClaimedEnd(rec) ==
    LET v == IF EndField \in DOMAIN rec THEN rec[EndField] ELSE NaN
    IN  IF IsNA(v) THEN <<"Timestamp", "2099-12-31">>
        ELSE IF v = <<"not-a-date">> THEN NaT
        ELSE <<"Timestamp", v[1]>>

\* C11: for every non-empty input transform_contracts and transform_meters
\* do not raise, and every record's endDate / billableTo is 2099-12-31 when
\* the value is null or the field is missing from the input, the invalid
\* date marker when it is unparseable, and the parsed value otherwise (the
\* claim as stated).
C11_AbsentEndIsSentinel ==
    (pc # "transform" /\ Transformed \in {"contracts", "meters"}
        /\ Len(FetchedRecords) > 0) =>
        /\ ebp_data[Transformed].set
        /\ LET out == ebp_data[Transformed].df
           IN  /\ Len(out.rows) = Len(FetchedRecords)
               /\ \A i \in 1..Len(FetchedRecords) :
                     Cell(out, out.rows[i], EndField) = ClaimedEnd(FetchedRecords[i])

\* C12: every transformer is idempotent: applied to its own result it
\* returns that result, columns and values (the claim as stated).
C12_TransformIdempotent ==
    /\ pc = "transformed_twice" => ExportFrame(Transformed) = ebp_data[Transformed].df
    /\ pc = "fatal" => ~ebp_data[Transformed].set

(***************************************************************************)
(* C13: required configuration.                                            *)
(***************************************************************************)
\* EBP_USERNAME, EBP_PASSWORD, the base URL and EXPORT_BASE_PATH are all set
ConfigurationComplete == CredentialsSet(env) /\ env.base_path

\* C13: when a credential, the base URL or the export root path is unset, the
\* run issues no network request at all and does not end without an error
\* (the claim as stated).
C13_ConfigFatalBeforeRequests ==
    ~ConfigurationComplete =>
        /\ issued = {}
        /\ pc # "done"

(***************************************************************************)
(* C14: the frame of the filter stage.                                     *)
(***************************************************************************)
\* the utilityUnitId values of a table
UnitIdsOf(df) == IF "utilityUnitId" \in df.cols THEN ColumnValues(df, "utilityUnitId") ELSE {}

\* C14: from the link step on, the meters and profiles tables are the
\* fetched and transformed ones, whatever the denylist and the areas table,
\* and so are the tables written as the meters and profiles CSVs.
C14_MetersProfilesUnfiltered ==
    /\ dfm = ebp_data["meters"].df
    /\ dfp = ebp_data["profiles"].df
    /\ \A n \in {"meters", "profiles"} :
          n \in export.files => ExportFrame(n) = ebp_data[n].df

\* a finished run whose filter removed a utility unit and whose written
\* meters CSV holds a meter of that unit
C14_Witness ==
    /\ pc = "done"
    /\ {"meters", "profiles"} \subseteq export.files
    /\ Len(dfa.rows) < Len(ebp_data["areas"].df.rows)
    /\ \E i \in 1..Len(dfm.rows) :
          /\ dfm.rows[i]["utilityUnitId"] \in UnitIdsOf(ebp_data["utility_units"].df)
          /\ dfm.rows[i]["utilityUnitId"] \notin UnitIdsOf(dfu)

====
